---- MODULE Spec2Model ----
(***************************************************************************)
(* fileshiftlib.fileshift.SFTP: a session object that owns one paramiko    *)
(* transport and one SFTP client, authenticates at construction, can       *)
(* reconnect, and passes file operations through to the client.            *)
(*                                                                         *)
(* One action per method of the class.  The paramiko objects are the       *)
(* environment: every call on them takes its outcome (success, or which    *)
(* failure) as an input of the action that makes the call.                 *)
(***************************************************************************)
EXTENDS Integers, Sequences, FiniteSets, TLC

\* ------------------------------------------------------------------ bounds

\* Number of auth() calls (hence connections) one behaviour may make.
MaxAuth == 2

\* ------------------------------------------------------- program constants

\* def __init__(..., port: int = 22, ...)
DefaultPort == 22

\* ------------------------------------------------------------ input values

Absent == "absent"          \* a file that does not exist
NoArg == "noarg"            \* an optional argument the caller left out
NoError == "none"
NoHandle == 0               \* self._transport / self.sftp_client not assigned

\* Constructor arguments << host, username, password, port >>; the port is
\* left out (<< >>) or given.
CtorArgs ==
    { << "h1", "admin", "pw", << >> >>,
      << "h2", "bob", "None", <<2222>> >> }

\* Loggers a caller can pass: None (-> module logger), a logger whose
\* handlers return normally, a logger whose handler raises.
StandardLoggers == {NoArg, "standard"}
RaisingLoggers == {"raising"}

ConnIds == 1..MaxAuth

\* Remote tree: directories / and /a, and the file /a/x.  A path is
\* [abs, comps]; "." is the relative path with no components.
Root == << >>
DirA == <<"a">>
Dirs == {Root, DirA}
RemoteFiles == {<<"a", "x">>}
LocalPaths == {"local.txt", "copy.txt"}

Dot == [abs |-> FALSE, comps |-> << >>]
AbsPath(comps) == [abs |-> TRUE, comps |-> comps]
RelPath(comps) == [abs |-> FALSE, comps |-> comps]
\* A directory argument: left out (<< >>), or given.
DirArgs == { << >>, << AbsPath(Root) >>, << AbsPath(DirA) >>, << RelPath(<<"x">>) >> }
FileArgs == { RelPath(<<"a", "x">>), AbsPath(<<"a", "x">>), AbsPath(<<"b", "x">>) }

VARIABLES
    obj,             \* "none" | "partial" (__init__ raised) | "live" | "collected"
    _logger,         \* self._logger
    _configuration,  \* self._configuration
    _transport,      \* self._transport: a connection id, or NoHandle
    sftp_client,     \* self.sftp_client: a connection id, or NoHandle
    ctorArgs,        \* the arguments __init__ was called with
    nAuth,           \* number of auth() calls that reached paramiko.Transport(...)
    t_state,         \* per connection id: "none" | "opened" | "active" | "closed"
    c_state,         \* per connection id: "none" | "open" | "closed"
    c_cwd,           \* per connection id: the client's working directory
    authUsed,        \* per connection id: the configuration values auth() passed
    remote,          \* remote file -> content or Absent
    local,           \* local path -> content or Absent
    last,            \* what the last call did and how it ended
    scope,           \* which behaviours are explored; never changes
    req,             \* the path arguments of the last file operation
    up,              \* the last upload whose remote file nothing has written since
    thr              \* two threads sharing the session: where each stands

vars == << obj, _logger, _configuration, _transport, sftp_client, ctorArgs, nAuth,
           t_state, c_state, c_cwd, authUsed, remote, local, last, scope, req, up, thr >>

\* What the callers of one thread at a time leave alone.
threads == << scope, thr >>
\* What the calls that are no file operation leave alone.
observed == << req, up >>

session == << _logger, _configuration, _transport, sftp_client >>
library == << t_state, c_state, c_cwd, remote, local >>

\* --------------------------------------------------------------- scopes

\* Whether req and up are kept.
Tracking == scope = "files"

\* The constructor arguments explored: every combination where the session's
\* whole life is followed, one where the file operations or the threads are.
ArgsExplored ==
    IF scope \in {"files", "threads"} THEN { << "h1", "admin", "pw", << >> >> }
    ELSE CtorArgs

NoRequest == [r |-> Dot, l |-> ""]
NoUpload == [valid |-> FALSE, file |-> Root, content |-> Absent]
Idle == [r |-> "idle", f |-> "idle", held |-> NoHandle, fresh |-> NoHandle,
         during |-> "none"]

\* ------------------------------------------------------------- the logger

\* self._logger = logger or logging.getLogger(name=__name__)
PickLogger(logger) == IF logger = NoArg THEN "standard" ELSE logger

\* Outcomes of one self._logger.info / .warning call: TRUE = returned.
LogOutcomes(lg) == IF lg = "raising" THEN {TRUE, FALSE} ELSE {TRUE}

\* --------------------------------------------------------- Configuration

Configuration(host, port, username, password) ==
    [host |-> host, port |-> port, username |-> username, password |-> password]

\* self._configuration before __init__ assigns it.
NoConfiguration == Configuration("", 0, "", "")

\* port: int = 22
PortOf(arg) == IF arg = << >> THEN DefaultPort ELSE arg[1]

\* auth() with the port taken from the default instead of self._configuration.
AuthConfigDefaultPort(conf) == [conf EXCEPT !.port = DefaultPort]

\* The four values auth() reads from self._configuration.
AuthConfig(conf) == conf

\* ------------------------------------------------------------------ auth

\* Where auth() stops.
AuthOutcomes == {"ok", "open_fail", "rejected", "derive_fail"}

AuthError(outcome) ==
    CASE outcome = "ok" -> NoError
      [] outcome = "log_fail" -> "LogError"
      [] outcome = "open_fail" -> "ConnectError"
      [] outcome = "rejected" -> "AuthRejected"
      [] outcome = "derive_fail" -> "SFTPError"

\* The connection id the next paramiko.Transport(...) call gets.
NewId == nAuth + 1

\* State of the transport and client created by an auth() call ending in outcome.
AuthTransportState(outcome) ==
    CASE outcome \in {"log_fail", "open_fail"} -> "none"
      [] outcome = "rejected" -> "opened"
      [] OTHER -> "active"

AuthClientState(outcome) == IF outcome = "ok" THEN "open" ELSE "none"

\* auth(), lines 160-167: the paramiko objects it creates, on top of the
\* library state (ts, cs, cw).  Nothing of self is assigned by auth() itself.
AuthLib(ts, cs, cw, outcome) ==
    [ t |-> IF outcome = "log_fail" THEN ts
            ELSE [ts EXCEPT ![NewId] = AuthTransportState(outcome)],
      c |-> IF outcome = "log_fail" THEN cs
            ELSE [cs EXCEPT ![NewId] = AuthClientState(outcome)],
      cwd |-> cw ]

\* auth() trying a second time when the first attempt failed.
AuthCallRetried(conf, outcome) ==
    /\ nAuth' = IF outcome = "ok" THEN nAuth + 1 ELSE nAuth + 2
    /\ authUsed' = [authUsed EXCEPT ![NewId] = AuthConfig(conf)]

\* auth(): the call is counted and the values it read are recorded.
AuthCall(conf, outcome) ==
    /\ nAuth' = IF outcome = "log_fail" THEN nAuth ELSE nAuth + 1
    /\ authUsed' = IF outcome = "log_fail" THEN authUsed
                   ELSE [authUsed EXCEPT ![NewId] = AuthConfig(conf)]

\* ----------------------------------------------------------------- close

\* transport.close() / sftp_client.close(): returned, raised with the handle
\* closed all the same, or raised with the handle left as it was.
CloseOutcomes == {"ok", "fail_closed", "fail_open"}

CloseFails(o) == o # "ok"

CloseState(s, o) == IF o = "fail_open" THEN s ELSE "closed"

\* self._transport.close() then self.sftp_client.close(): the second call has
\* an outcome only when the first returned.
ClientCloseOutcomes(tc) == IF CloseFails(tc) THEN {"ok"} ELSE CloseOutcomes

\* ---------------------------------------------------------------- result

Result(op, raised) ==
    [ op |-> op, raised |-> raised, swallowed |-> NoError, active |-> FALSE, names |-> {},
      pre |-> << _transport, sftp_client >>,
      authCalls |-> 0, authErr |-> NoError, authId |-> 0,
      closeTried |-> {}, closeFailed |-> {},
      delegated |-> 0, delegatedErr |-> NoError ]

\* ------------------------------------------------------------------ Init

InitWith(sc) ==
    /\ scope = sc
    /\ req = NoRequest
    /\ up = NoUpload
    /\ thr = Idle
    /\ obj = "none"
    /\ _logger = Absent
    /\ _configuration = NoConfiguration
    /\ _transport = NoHandle
    /\ sftp_client = NoHandle
    /\ ctorArgs = NoConfiguration
    /\ nAuth = 0
    /\ t_state = [i \in ConnIds |-> "none"]
    /\ c_state = [i \in ConnIds |-> "none"]
    /\ c_cwd = [i \in ConnIds |-> Root]
    /\ authUsed = [i \in ConnIds |-> NoConfiguration]
    /\ remote = [f \in RemoteFiles |-> "c2"]
    /\ local = [p \in LocalPaths |-> IF p = "local.txt" THEN "c1" ELSE Absent]
    /\ last = Result("none", NoError)

Init == InitWith("all")

\* -------------------------------------------------------------- __init__

\* __init__ keeping only the first element of the pair.
InitAssignTransportOnly(t, c) == << t, sftp_client >>

\* Line 131: the handles __init__ stores, given the pair auth() returned.
InitAssign(t, c) == << t, c >>

Construct(loggers) ==
    \E a \in ArgsExplored, logger \in loggers :
      /\ obj = "none"
      /\ _logger' = PickLogger(logger)
      /\ ctorArgs' = [host |-> a[1], port |-> PortOf(a[4]), username |-> a[2],
                       password |-> a[3]]
      /\ _configuration' = Configuration(a[1], PortOf(a[4]), a[2], a[3])
      /\ \E logged \in LogOutcomes(PickLogger(logger)), o \in AuthOutcomes :
           LET outcome == IF logged THEN o ELSE "log_fail" IN
           /\ AuthCall(_configuration', outcome)
           /\ t_state' = AuthLib(t_state, c_state, c_cwd, outcome).t
           /\ c_state' = AuthLib(t_state, c_state, c_cwd, outcome).c
           /\ c_cwd' = AuthLib(t_state, c_state, c_cwd, outcome).cwd
           /\ IF outcome = "ok"
                 THEN /\ _transport' = InitAssign(NewId, NewId)[1]
                      /\ sftp_client' = InitAssign(NewId, NewId)[2]
                      /\ obj' = "live"
                 ELSE /\ UNCHANGED << _transport, sftp_client >>
                      /\ obj' = "partial"
           /\ last' = [Result("construct", AuthError(outcome)) EXCEPT
                         !.authCalls = 1, !.authErr = AuthError(outcome),
                         !.authId = IF outcome = "log_fail" THEN 0 ELSE NewId]
      /\ UNCHANGED << remote, local, threads, observed >>

\* --------------------------------------------------------------- __del__

\* Lines 143-146.  Run by the interpreter when the object is collected (an
\* exception is then printed and dropped, and the object is gone), or called
\* as a method (an exception then reaches the caller).  The interpreter also
\* runs it on an object whose __init__ raised.
Del ==
    \E explicit \in BOOLEAN, logged \in LogOutcomes(_logger), tc \in CloseOutcomes :
    \E cc \in ClientCloseOutcomes(tc) :
      /\ obj \in {"live", "partial"}
      /\ obj = "partial" => ~explicit
      /\ LET hasT == _transport # NoHandle
             \* self._transport.close() is reached, and so is self.sftp_client.close()
             triedT == logged /\ hasT
             triedC == triedT /\ ~CloseFails(tc)
             err == CASE ~logged -> "LogError"
                      [] ~hasT -> "AttributeError"
                      [] CloseFails(tc) -> "CloseError"
                      [] CloseFails(cc) -> "CloseError"
                      [] OTHER -> NoError
         IN /\ t_state' = IF triedT
                             THEN [t_state EXCEPT ![_transport] = CloseState(@, tc)]
                             ELSE t_state
            /\ c_state' = IF triedC
                             THEN [c_state EXCEPT ![sftp_client] = CloseState(@, cc)]
                             ELSE c_state
            /\ last' = [Result("del", IF explicit THEN err ELSE NoError) EXCEPT
                          !.swallowed = IF explicit THEN NoError ELSE err,
                          !.closeTried = (IF triedT THEN {"transport"} ELSE {})
                                         \cup (IF triedC THEN {"client"} ELSE {}),
                          !.closeFailed = (IF triedT /\ CloseFails(tc) THEN {"transport"} ELSE {})
                                          \cup (IF triedC /\ CloseFails(cc) THEN {"client"} ELSE {})]
      /\ obj' = IF explicit THEN obj ELSE "collected"
      /\ UNCHANGED << session, ctorArgs, nAuth, c_cwd, authUsed, remote, local >>
      /\ UNCHANGED << threads, observed >>

\* ------------------------------------------------------------- reconnect

\* An except clause that logs and raises again.
CloseHandlerReraise(err) == err

\* reconnect() keeping only the first element of the pair.
ReconnectAssignTransportOnly(t, c) == << t, sftp_client >>

\* Lines 186-187: what the except clause lets through of an error raised by
\* one of the two close calls.  It logs a warning and raises nothing.
CloseHandler(err) == NoError

\* Line 189: the handles reconnect() stores, given the pair auth() returned.
ReconnectAssign(t, c) == << t, c >>

\* Lines 181-189.
Reconnect ==
    \E logged \in LogOutcomes(_logger), tc \in CloseOutcomes,
       warned \in LogOutcomes(_logger), authLogged \in LogOutcomes(_logger),
       o \in AuthOutcomes :
    \E cc \in ClientCloseOutcomes(tc) :
      /\ obj = "live"
      /\ nAuth < MaxAuth
      /\ LET triedT == logged
             triedC == triedT /\ ~CloseFails(tc)
             closeErr == triedT /\ (CloseFails(tc) \/ CloseFails(cc))
             handled == IF closeErr THEN CloseHandler("CloseError") ELSE NoError
             \* auth() is not reached when the first info call raised, when the
             \* except clause let the error through, or when its warning call raised
             reachedAuth == logged /\ handled = NoError /\ (closeErr => warned)
             outcome == IF authLogged THEN o ELSE "log_fail"
             ts == IF triedT THEN [t_state EXCEPT ![_transport] = CloseState(@, tc)]
                   ELSE t_state
             cs == IF triedC THEN [c_state EXCEPT ![sftp_client] = CloseState(@, cc)]
                   ELSE c_state
         IN /\ UNCHANGED << _logger, _configuration >>
            /\ IF reachedAuth
                  THEN /\ AuthCall(_configuration, outcome)
                       /\ t_state' = AuthLib(ts, cs, c_cwd, outcome).t
                       /\ c_state' = AuthLib(ts, cs, c_cwd, outcome).c
                       /\ c_cwd' = AuthLib(ts, cs, c_cwd, outcome).cwd
                       /\ IF outcome = "ok"
                             THEN /\ _transport' = ReconnectAssign(NewId, NewId)[1]
                                  /\ sftp_client' = ReconnectAssign(NewId, NewId)[2]
                             ELSE UNCHANGED << _transport, sftp_client >>
                  ELSE /\ t_state' = ts
                       /\ c_state' = cs
                       /\ UNCHANGED << nAuth, authUsed, c_cwd, _transport, sftp_client >>
            /\ last' = [Result("reconnect",
                               CASE reachedAuth -> AuthError(outcome)
                                 [] logged /\ handled # NoError -> handled
                                 [] OTHER -> "LogError") EXCEPT
                          !.authCalls = IF reachedAuth THEN 1 ELSE 0,
                          !.authErr = IF reachedAuth THEN AuthError(outcome) ELSE NoError,
                          !.authId = IF reachedAuth /\ outcome # "log_fail" THEN NewId ELSE 0,
                          !.closeTried = (IF triedT THEN {"transport"} ELSE {})
                                         \cup (IF triedC THEN {"client"} ELSE {}),
                          !.closeFailed = (IF triedT /\ CloseFails(tc) THEN {"transport"} ELSE {})
                                          \cup (IF triedC /\ CloseFails(cc) THEN {"client"} ELSE {})]
      /\ UNCHANGED << obj, ctorArgs, remote, local, threads, observed >>

\* ---------------------------------------------------------- is_connected

\* transport.is_active()
IsActive(t) == t_state[t] = "active"

\* is_connected() answering from the client instead of the transport.
IsConnectedValueFromClient == c_state[sftp_client] = "open"

\* Line 202: the value is_connected() returns.
IsConnectedValue == IsActive(_transport)

\* Lines 200-202.
IsConnected ==
    \E logged \in LogOutcomes(_logger) :
      /\ obj = "live"
      /\ last' = IF logged
                    THEN [Result("is_connected", NoError) EXCEPT !.active = IsConnectedValue]
                    ELSE Result("is_connected", "LogError")
      /\ UNCHANGED << obj, session, ctorArgs, nAuth, authUsed, library, threads, observed >>

\* ------------------------------------------------------ the SFTP client

\* A path as the client sends it: relative paths are taken from its working
\* directory.
Resolve(cwd, path) == IF path.abs THEN path.comps ELSE cwd \o path.comps

Parent(f) == SubSeq(f, 1, Len(f) - 1)

\* Names in directory d: its files, and for the root the directory a.
NamesIn(d, rem) ==
    { f[Len(f)] : f \in { g \in RemoteFiles : Parent(g) = d /\ rem[g] # Absent } }
        \cup (IF d = Root THEN {"a"} ELSE {})

\* Whether the network carries a request of client c: a question only while
\* its channel is open.
NetOutcomes(c) == IF c_state[c] = "open" THEN BOOLEAN ELSE {TRUE}

\* One call on client c: op is the method, r the remote path, l the local
\* path, net whether the network carries the request.  Gives the error
\* raised (NoError if none) and the state the call leaves.
ClientCall(op, c, r, l, net) ==
    LET p == Resolve(c_cwd[c], r)
        same == [ err |-> NoError, names |-> {}, cwd |-> c_cwd, remote |-> remote,
                  local |-> local ]
        fail(e) == [same EXCEPT !.err = e]
    IN  CASE c_state[c] # "open" -> fail("ChannelClosed")
          [] ~net -> fail("NetworkError")
          [] op = "listdir" ->
                IF p \in Dirs THEN [same EXCEPT !.names = NamesIn(p, remote)]
                ELSE fail("NoSuchFile")
          [] op = "chdir" ->
                IF p \in Dirs THEN [same EXCEPT !.cwd = [c_cwd EXCEPT ![c] = p]]
                ELSE fail("NoSuchFile")
          [] op = "remove" ->
                IF p \in RemoteFiles /\ remote[p] # Absent
                   THEN [same EXCEPT !.remote = [remote EXCEPT ![p] = Absent]]
                   ELSE fail("NoSuchFile")
          [] op = "get" ->
                IF p \in RemoteFiles /\ remote[p] # Absent
                   THEN [same EXCEPT !.local = [local EXCEPT ![l] = remote[p]]]
                   ELSE fail("NoSuchFile")
          [] op = "put" ->
                IF local[l] = Absent THEN fail("LocalIOError")
                ELSE IF p \in RemoteFiles
                        THEN [same EXCEPT !.remote = [remote EXCEPT ![p] = local[l]]]
                        ELSE fail("NoSuchFile")

\* --------------------------------------------------------- file operations

\* path: str = "."
PathOf(arg) == IF arg = << >> THEN Dot ELSE arg[1]

\* A method that catches the error of its client call and returns.
PropagateSwallowed(err) == NoError

\* What the method raises when its client call raised err: there is no handler
\* around the call.
Propagate(err) == err

\* A method that tests the state first and calls the client only when open.
DelegationsWhenOpen == IF c_state[sftp_client] = "open" THEN 1 ELSE 0

\* The number of client calls one invocation makes once its logging is done.
Delegations == 1

\* The body shared by the five methods: log, then one call on self.sftp_client.
FileOp(name, op, r, l) ==
    \E logged \in LogOutcomes(_logger), net \in NetOutcomes(sftp_client) :
      /\ LET res == ClientCall(op, sftp_client, r, l, net) IN
         IF logged
            THEN /\ c_cwd' = res.cwd
                 /\ remote' = res.remote
                 /\ local' = res.local
                 /\ last' = [Result(name, Propagate(res.err)) EXCEPT
                               !.names = res.names,
                               !.delegated = Delegations,
                               !.delegatedErr = res.err]
            ELSE /\ UNCHANGED << c_cwd, remote, local >>
                 /\ last' = Result(name, "LogError")
      /\ UNCHANGED << obj, session, ctorArgs, nAuth, authUsed, t_state, c_state, threads >>

\* The arguments the caller gave, kept for the claims.
Asked(r, l) == req' = IF Tracking THEN [r |-> r, l |-> l] ELSE req

\* A method that calls the client with the default path whatever it was given.
PassPathDefault(path) == Dot

\* Lines 221, 243, 266, 291, 317: the remote path goes to the client as given.
PassPath(path) == path

\* upload_file() always sending the same local file.
PassLocalFixed(local_path) == "local.txt"

\* Lines 291, 317: the local path goes to the client as given.
PassLocal(local_path) == local_path

\* Lines 218-221.
ListDir ==
    /\ obj = "live"
    /\ \E path \in DirArgs :
         /\ FileOp("list_dir", "listdir", PassPath(PathOf(path)), "")
         /\ Asked(PathOf(path), "")
    /\ UNCHANGED up

\* Lines 240-243.
ChangeDir ==
    /\ obj = "live"
    /\ \E path \in DirArgs :
         /\ FileOp("change_dir", "chdir", PassPath(PathOf(path)), "")
         /\ Asked(PathOf(path), "")
    /\ UNCHANGED up

\* Lines 263-266.
DeleteFile ==
    /\ obj = "live"
    /\ \E filename \in FileArgs :
         /\ FileOp("delete_file", "remove", PassPath(filename), "")
         /\ Asked(filename, "")
    /\ up' = IF Tracking /\ up.valid /\ remote'[up.file] = Absent
                THEN NoUpload ELSE up

\* Lines 287-291.
DownloadFile ==
    /\ obj = "live"
    /\ \E remote_path \in FileArgs, local_path \in {"copy.txt"} :
         /\ FileOp("download_file", "get", PassPath(remote_path), PassLocal(local_path))
         /\ Asked(remote_path, local_path)
    /\ UNCHANGED up

\* Lines 313-317.
UploadFile ==
    /\ obj = "live"
    /\ \E local_path \in LocalPaths, remote_path \in FileArgs :
         /\ FileOp("upload_file", "put", PassPath(remote_path), PassLocal(local_path))
         /\ Asked(remote_path, local_path)
         /\ up' = IF Tracking /\ last'.delegated = 1 /\ last'.raised = NoError
                     THEN [valid |-> TRUE,
                           file |-> Resolve(c_cwd[sftp_client], remote_path),
                           content |-> local[local_path]]
                     ELSE up

\* ------------------------------------------------------------ environment

\* The connection the session holds is lost (peer or network): its transport
\* stops being active and its channel is closed.
Drop ==
    /\ obj = "live"
    /\ t_state[_transport] = "active"
    /\ t_state' = [t_state EXCEPT ![_transport] = "closed"]
    /\ c_state' = [c_state EXCEPT ![_transport] = IF @ = "open" THEN "closed" ELSE @]
    /\ last' = Result("drop", NoError)
    /\ UNCHANGED << obj, session, ctorArgs, nAuth, authUsed, c_cwd, remote, local >>
    /\ UNCHANGED << threads, observed >>

\* ------------------------------------------- two threads, one session

\* A session that kept other callers out while reconnect() runs.
ExcludedDuringReconnect(pcR) == pcR # "idle"

\* Lines 181-189, 218-221: the methods take no lock and test no state before
\* they use the handles, so a caller is never kept out.
Excluded(pcR) == FALSE

\* Lines 181-187 in one thread: both close calls and the except clause.
ThreadClose ==
    \E tc \in CloseOutcomes :
    \E cc \in ClientCloseOutcomes(tc) :
      /\ obj = "live"
      /\ thr.r = "idle"
      /\ nAuth < MaxAuth
      /\ t_state' = [t_state EXCEPT ![_transport] = CloseState(@, tc)]
      /\ c_state' = IF CloseFails(tc) THEN c_state
                     ELSE [c_state EXCEPT ![sftp_client] = CloseState(@, cc)]
      /\ thr' = [thr EXCEPT !.r = "closed"]
      /\ UNCHANGED << obj, session, ctorArgs, nAuth, authUsed, c_cwd, remote, local,
                      last, scope, observed >>

\* Line 189, right-hand side, in the same thread: self.auth().
ThreadAuth ==
    \E o \in AuthOutcomes :
      /\ thr.r = "closed"
      /\ AuthCall(_configuration, o)
      /\ t_state' = AuthLib(t_state, c_state, c_cwd, o).t
      /\ c_state' = AuthLib(t_state, c_state, c_cwd, o).c
      /\ c_cwd' = AuthLib(t_state, c_state, c_cwd, o).cwd
      /\ IF o = "ok"
            THEN /\ thr' = [thr EXCEPT !.r = "authed", !.fresh = NewId]
                 /\ UNCHANGED last
            ELSE /\ thr' = [thr EXCEPT !.r = "idle"]
                 /\ last' = [Result("reconnect", AuthError(o)) EXCEPT
                                !.authCalls = 1, !.authErr = AuthError(o)]
      /\ UNCHANGED << obj, session, ctorArgs, remote, local, scope, observed >>

\* Line 189, left-hand side, in the same thread: the two attributes are stored.
ThreadStore ==
    /\ thr.r = "authed"
    /\ _transport' = ReconnectAssign(thr.fresh, thr.fresh)[1]
    /\ sftp_client' = ReconnectAssign(thr.fresh, thr.fresh)[2]
    /\ thr' = [thr EXCEPT !.r = "idle", !.fresh = NoHandle]
    /\ last' = [Result("reconnect", NoError) EXCEPT
                   !.authCalls = 1, !.authId = thr.fresh]
    /\ UNCHANGED << obj, _logger, _configuration, ctorArgs, nAuth, authUsed,
                    library, scope, observed >>

\* Lines 218-221 in the other thread: list_dir() logs and reads
\* self.sftp_client.
ThreadLoad ==
    /\ obj = "live"
    /\ thr.f = "idle"
    /\ ~Excluded(thr.r)
    /\ thr' = [thr EXCEPT !.f = "loaded", !.held = sftp_client]
    /\ UNCHANGED << obj, session, ctorArgs, nAuth, authUsed, library, last,
                    scope, observed >>

\* Line 221 in the other thread: listdir is called on the client it read.
ThreadCall ==
    /\ thr.f = "loaded"
    /\ ~Excluded(thr.r)
    /\ \E net \in NetOutcomes(thr.held) :
         LET res == ClientCall("listdir", thr.held, Dot, "", net)
         IN /\ c_cwd' = res.cwd
            /\ remote' = res.remote
            /\ local' = res.local
            /\ last' = [Result("list_dir", Propagate(res.err)) EXCEPT
                           !.names = res.names,
                           !.delegated = Delegations,
                           !.delegatedErr = res.err]
    /\ thr' = [thr EXCEPT !.f = "idle", !.during = thr.r]
    /\ UNCHANGED << obj, session, ctorArgs, nAuth, authUsed, t_state, c_state,
                    scope, observed >>

\* ------------------------------------------------------------------ Next

NextWith(loggers) ==
    \/ Construct(loggers)
    \/ Del
    \/ Reconnect
    \/ IsConnected
    \/ ListDir
    \/ ChangeDir
    \/ DeleteFile
    \/ DownloadFile
    \/ UploadFile
    \/ Drop

\* Sessions whose logger returns from every call (the module logger, or a
\* logger with the standard handlers).
Next == NextWith(StandardLoggers)

Spec == Init /\ [][Next]_vars

\* Sessions whose logger may also raise.
NextRaisingLogger == NextWith(StandardLoggers \cup RaisingLoggers)

SpecRaisingLogger == Init /\ [][NextRaisingLogger]_vars

\* One thread in reconnect() while another is in list_dir(), on one session.
NextThreads ==
    \/ Construct(StandardLoggers)
    \/ ThreadClose
    \/ ThreadAuth
    \/ ThreadStore
    \/ ThreadLoad
    \/ ThreadCall

InitThreads == InitWith("threads")

SpecThreads == InitThreads /\ [][NextThreads]_vars

\* One caller, the file operations with their arguments kept.
NextFiles ==
    \/ Construct(StandardLoggers)
    \/ Reconnect
    \/ ListDir
    \/ ChangeDir
    \/ DeleteFile
    \/ DownloadFile
    \/ UploadFile

InitFiles == InitWith("files")

SpecFiles == InitFiles /\ [][NextFiles]_vars

\* ================================================================ claims

FileOpNames == {"list_dir", "change_dir", "delete_file", "download_file", "upload_file"}

BothClosed == {"transport", "client"}

\* The session holds the pair auth call id created, and that pair is open.
OpenWith(id) ==
    /\ _transport = id
    /\ sftp_client = id
    /\ t_state[_transport] = "active"
    /\ c_state[sftp_client] = "open"
    /\ IsConnectedValue

\* C1: when the auth() call inside reconnect() succeeds, the session holds the
\* freshly authenticated transport and client and is_connected() is true,
\* whatever the two close calls before it did.
C1_ReconnectOpensWhenAuthSucceeds ==
    (last.op = "reconnect" /\ last.authCalls = 1 /\ last.authErr = NoError)
        => OpenWith(last.authId)

\* C1 witness: a reconnect whose close step failed and whose auth() succeeded.
C1_Witness ==
    /\ last.op = "reconnect"
    /\ last.closeFailed # {}
    /\ last.authCalls = 1
    /\ last.authErr = NoError

C3_HandlesPaired ==
    (obj \in {"live", "collected"} /\ _transport # NoHandle) =>
        /\ _transport = sftp_client
        /\ (t_state[_transport] = "active") <=> (c_state[sftp_client] = "open")

\* C4: whenever __del__ or the close step of reconnect() calls close on the
\* transport, it also calls close on the client, also when the first call
\* raised.
C4_BothClosesAttempted ==
    (last.op \in {"del", "reconnect"} /\ "transport" \in last.closeTried)
        => "client" \in last.closeTried

\* C5: a construction whose auth() call succeeded gives a session that holds
\* the pair of that one call, and is_connected() is true.
C5_ConstructionOpens ==
    (last.op = "construct" /\ last.authErr = NoError) =>
        /\ obj = "live"
        /\ last.raised = NoError
        /\ last.authCalls = 1
        /\ OpenWith(last.authId)

\* C5 witness: a session just constructed.
C5_Witness ==
    /\ last.op = "construct"
    /\ obj = "live"
    /\ last.authId = 1

\* C6: a construction whose auth() call failed raises that failure unchanged,
\* returns no session, and no method ever runs on an object that lacks its
\* transport or client.
C6_NoPartialSession ==
    /\ (last.op = "construct" /\ last.authErr # NoError) =>
          (last.raised = last.authErr /\ obj # "live")
    /\ last.op \notin {"none", "construct"} =>
          (_transport # NoHandle /\ sftp_client # NoHandle)

\* C7: __del__ on a constructed session calls close on both handles and lets
\* no close failure reach the caller.
C7_TeardownBestEffort ==
    (last.op = "del" /\ last.pre[1] # NoHandle) =>
        /\ last.closeTried = BothClosed
        /\ last.raised = NoError

\* C8: a file operation makes one client call, raises exactly what that call
\* raised, makes no auth() and no close call, and leaves the handles and the
\* connections as they were; a delete_file that returns has removed a file
\* that existed.
C8_FileOpsDelegateOnce ==
    [][ last'.op \in FileOpNames =>
          /\ last'.delegated = 1
          /\ last'.raised = last'.delegatedErr
          /\ last'.authCalls = 0
          /\ last'.closeTried = {}
          /\ UNCHANGED << _transport, sftp_client, nAuth, t_state, c_state >>
          /\ (last'.op = "delete_file" /\ last'.raised = NoError) =>
                \E f \in RemoteFiles : remote[f] # Absent /\ remote'[f] = Absent
      ]_vars

\* C8 witness: delete_file of a path that does not exist on an open client
\* raised the client's error.
C8_Witness ==
    /\ last.op = "delete_file"
    /\ c_state[sftp_client] = "open"
    /\ last.delegatedErr = "NoSuchFile"
    /\ last.raised = "NoSuchFile"

\* C9: is_connected() returns what the transport it holds reports, whatever
\* the state of the client, and changes nothing of the session, the
\* connections or the files.
C9_IsConnectedPureQuery ==
    [][ last'.op = "is_connected" =>
          /\ last'.raised = NoError
          /\ last'.active = IsActive(_transport)
          /\ UNCHANGED << obj, session, ctorArgs, nAuth, authUsed, library >>
      ]_vars

\* C9 witness: is_connected() returned false on a session whose client is open.
C9_Witness ==
    /\ last.op = "is_connected"
    /\ last.active = FALSE
    /\ c_state[sftp_client] = "open"

\* C10: the configuration equals the constructor arguments from construction
\* on, and every auth() call was made with those four values.
C10_ConfigurationImmutable ==
    obj # "none" =>
        /\ _configuration = ctorArgs
        /\ \A i \in 1..nAuth : authUsed[i] = ctorArgs

\* C10 witness: a reconnect of a session constructed with a port of its own
\* made the second auth() call.
C10_Witness ==
    /\ last.op = "reconnect"
    /\ nAuth = 2
    /\ ctorArgs.port # DefaultPort
    /\ authUsed[2] = ctorArgs

\* C11: a logger call that raises changes nothing: no call of the session ends
\* with the logger's error, every file operation still makes its one delegated
\* call, every reconnect() still reaches auth(), and every teardown of a
\* constructed session still tries to close the transport.
C11_LoggingNeverPropagates ==
    /\ last.raised # "LogError"
    /\ last.op \in FileOpNames => last.delegated = 1
    /\ last.op = "reconnect" => last.authCalls = 1
    /\ (last.op = "del" /\ last.pre[1] # NoHandle) => "transport" \in last.closeTried

\* C12: with two threads on one session nothing keeps list_dir() out while
\* reconnect() is between its close calls and its assignment: the other thread
\* can always read the client handle and can always issue its call on the
\* handle it read, whatever reconnect() has done to that handle meanwhile.
C12_NothingExcludesTheRace ==
    (obj = "live" /\ thr.r # "idle") =>
        /\ thr.f = "idle" => ENABLED ThreadLoad
        /\ thr.f = "loaded" => ENABLED ThreadCall

\* list_dir() was issued on the client reconnect() had just closed, before
\* reconnect() replaced it, and failed on the closed channel.
C12_Witness ==
    /\ last.op = "list_dir"
    /\ thr.during = "closed"
    /\ thr.held = sftp_client
    /\ c_state[thr.held] = "closed"
    /\ last.delegated = 1
    /\ last.raised = "ChannelClosed"

\* What list_dir(p) returns for an absolute directory p, i.e. from the root.
ListFromRoot(p) == NamesIn(p, remote)

C14_UploadDownloadRoundTrip ==
    ( /\ last.op = "download_file"
      /\ last.raised = NoError
      /\ up.valid
      /\ Resolve(c_cwd[sftp_client], req.r) = up.file )
        => local[req.l] = up.content

\* The round trip happened with the content of local.txt, which differs from
\* what the remote file held at first.
C14_Witness ==
    /\ last.op = "download_file"
    /\ last.raised = NoError
    /\ up.valid
    /\ Resolve(c_cwd[sftp_client], req.r) = up.file
    /\ up.content = "c1"
    /\ local["copy.txt"] = "c1"

\* C19: a successful reconnect() leaves the session with a new client whose
\* working directory is the default one, whatever change_dir() had set on the
\* old client, and the relative path of the list_dir, delete_file,
\* download_file or upload_file call that follows is resolved from there.
C19_ReconnectResetsCwd ==
    [][ /\ (last'.op = "reconnect" /\ last'.authCalls = 1 /\ last'.authErr = NoError) =>
              /\ sftp_client' # sftp_client
              /\ c_cwd'[sftp_client'] = Root
        /\ ( /\ last.op = "reconnect" /\ last.authCalls = 1 /\ last.authErr = NoError
             /\ last'.op \in FileOpNames \ {"change_dir"}
             /\ last'.raised = NoError
             /\ ~req'.r.abs ) =>
              CASE last'.op = "list_dir" -> last'.names = ListFromRoot(req'.r.comps)
                [] last'.op = "delete_file" ->
                      remote[req'.r.comps] # Absent /\ remote'[req'.r.comps] = Absent
                [] last'.op = "download_file" -> local'[req'.l] = remote[req'.r.comps]
                [] last'.op = "upload_file" -> remote'[req'.r.comps] = local[req'.l]
      ]_vars

\* reconnect() succeeded on a session whose old client had been moved to /a.
C19_Witness ==
    /\ last.op = "reconnect"
    /\ last.authErr = NoError
    /\ last.authCalls = 1
    /\ c_cwd[last.pre[2]] = DirA
    /\ c_cwd[sftp_client] = Root
    /\ sftp_client # last.pre[2]

\* C15: after a reconnect() whose auth() failed the session holds the pair it
\* held before, both handles of that pair have had their close call, and
\* is_connected() is false.
C15_FailedReconnectKeepsClosedPair ==
    (last.op = "reconnect" /\ last.authCalls = 1 /\ last.authErr # NoError) =>
        /\ << _transport, sftp_client >> = last.pre
        /\ last.closeTried = BothClosed
        /\ ~IsConnectedValue

\* C16: every transport and every client an auth() call created, other than
\* the pair the session holds, is closed.
C16_NoConnectionLeaked ==
    \A id \in ConnIds :
        /\ id # _transport => t_state[id] \in {"none", "closed"}
        /\ id # sftp_client => c_state[id] \in {"none", "closed"}

\* C17: a file operation on a session whose client is closed still makes its
\* one call on that client, the call fails on the closed channel, and the
\* method raises exactly that error.
C17_ClosedSessionStillDelegates ==
    (last.op \in FileOpNames /\ c_state[sftp_client] # "open") =>
        /\ last.delegated = 1
        /\ last.delegatedErr = "ChannelClosed"
        /\ last.raised = last.delegatedErr

\* A file operation was called on a session whose transport and client are
\* both closed, and raised the closed client's error.
C17_Witness ==
    /\ last.op \in FileOpNames
    /\ t_state[_transport] = "closed"
    /\ c_state[sftp_client] = "closed"
    /\ last.delegated = 1
    /\ last.raised = "ChannelClosed"

\* C18: __init__ and reconnect() each make one auth() call, an auth() call
\* opens at most one transport, and no other call makes an auth() call.
C18_AuthNeverRetried ==
    [][ /\ last'.op \in {"construct", "reconnect"} =>
              /\ nAuth' = nAuth + 1
              /\ last'.authCalls = 1
        /\ last'.op \notin {"construct", "reconnect"} => nAuth' = nAuth
        /\ Cardinality({ id \in ConnIds :
                            t_state[id] = "none" /\ t_state'[id] # "none" }) <= 1
        /\ \A id \in ConnIds :
              (t_state[id] = "none" /\ t_state'[id] # "none") => id = nAuth'
      ]_vars

\* A reconnect() whose credentials were rejected: one transport opened, no
\* second attempt.
C18_Witness ==
    /\ last.op = "reconnect"
    /\ last.authErr = "AuthRejected"
    /\ last.raised = "AuthRejected"
    /\ nAuth = 2
    /\ t_state[2] = "opened"

============================================================================
